---- MODULE Spec2Model ----
(***************************************************************************)
(* Model of src/services/geminiService.ts (Niramaya Health AI):            *)
(*   - createAudioBufferFromPCM : 16-bit PCM bytes -> AudioBuffer          *)
(*   - validateApiKey           : check of the build-time API credential   *)
(*   - generateHealthReport     : JSON report out of the model's text      *)
(*   - generateAudioNarration   : base64 audio payload of a TTS response   *)
(* Platform functions the code calls (typed-array constructor,             *)
(* AudioContext.createBuffer, String.replace / trim / startsWith,          *)
(* JSON.parse, atob) are modelled by their ECMAScript / Web-platform       *)
(* semantics, restricted to small alphabets.                               *)
(***************************************************************************)
EXTENDS Integers, Sequences, FiniteSets, TLC

(* ---------------------------- bounds ---------------------------------- *)
\* length of the ArrayBuffer the PCM views are taken from
MaxBufLen == 4

(* ------------------------------ state --------------------------------- *)
\* createAudioBufferFromPCM
VARIABLES
  mem,      \* the bytes of the ArrayBuffer behind the inputs (data.buffer)
  view,     \* per call: byteOffset and byteLength of its Uint8Array data
  rateArg,  \* per call: the sampleRate argument, Nothing when omitted
  pc,       \* per call: "ready", "loop", "returned", "threw"
  idx,      \* per call: the loop variable i
  buffer,   \* per call: the AudioBuffer under construction / returned
  err       \* per call: name of the exception thrown, "" when none

pcmVars == <<mem, view, rateArg, pc, idx, buffer, err>>

\* validateApiKey
VARIABLES
  envKey,     \* process.env.API_KEY of the build: Nothing when not set
  keyLiteral, \* the source text define puts in place of process.env.API_KEY
  keyPc,      \* "build", "built", "validated"
  keyResult   \* the object validateApiKey returned

keyVars == <<envKey, keyLiteral, keyPc, keyResult>>

\* generateHealthReport
VARIABLES
  repResponse, \* how ai.models.generateContent settles, and with what
  repPc,       \* "awaiting", "done"
  repOutcome,  \* "none", "returned", "threw"
  repValue,    \* the HealthReport returned (a parsed JSON value)
  repError,    \* the Error thrown to the caller
  repParsed,   \* TRUE once JSON.parse has been called
  repLog       \* what console.error received

repVars == <<repResponse, repPc, repOutcome, repValue, repError, repParsed, repLog>>

\* generateAudioNarration
VARIABLES
  ttsResponse, \* how generateContent settles, and with what
  ttsPc,       \* "awaiting", "done"
  ttsOutcome,  \* "none", "returned", "threw"
  ttsBytes,    \* the Uint8Array returned
  ttsError,    \* the error thrown to the caller
  ttsLog       \* what console.error received

ttsVars == <<ttsResponse, ttsPc, ttsOutcome, ttsBytes, ttsError, ttsLog>>

vars == <<pcmVars, keyVars, repVars, ttsVars>>

(* --------------------------- generic helpers --------------------------- *)
\* optional values (undefined / present) are sequences of length 0 or 1
Nothing == <<>>
Just(x) == <<x>>

\* the sequences over S of length at most n
SeqsUpTo(S, n) == UNION {[1..k -> S] : k \in 0..n}

(* ======================= createAudioBufferFromPCM ====================== *)
\* byte values the inputs are drawn from: 0x00, 0x7F, 0x80, 0xFF
ByteVals == {0, 127, 128, 255}

\* the two concurrent invocations
Calls == {"a", "b"}

\* explicit sample rates a caller passes, taken from the range 8000..96000
\* that every AudioContext has to support, so createBuffer accepts them
SampleRates == {48000}

\* geminiService.ts:124  sampleRate: number = 24000
DefaultSampleRate == 24000

\* geminiService.ts:134  the divisor 32768.0
Divisor == 32768

\* geminiService.ts:129  const numChannels = 1
NumChannels == 1

\* a JavaScript number that is a dyadic rational, as <<numerator, denominator>>
\* in lowest terms.  s / 32768.0 with |s| <= 32768 is exact in float64 and
\* in the float32 a Float32Array element holds, so no rounding occurs.
RECURSIVE Reduce(_, _)
Reduce(n, d) ==
  IF d > 1 /\ n % 2 = 0 THEN Reduce(n \div 2, d \div 2) ELSE <<n, d>>

\* the division of line 134
Divide(s, d) == Reduce(s, d)

\* Math.floor(data.byteLength / 2), line 126
NumSamplesOf(byteLength) == byteLength \div 2

\* two's-complement reading of an unsigned 16-bit value
ToInt16(u) == IF u >= 32768 THEN u - 65536 ELSE u

\* Int16At reading from the start of the ArrayBuffer, the byte offset of the
\* view left out
Int16At_NoOffset(bytes, byteOffset, i) ==
  ToInt16(bytes[2 * i + 1] + 256 * bytes[2 * i + 2])

\* dataInt16[i] for new Int16Array(data.buffer, data.byteOffset, n), line 127:
\* element i is read from buffer bytes byteOffset+2i (low) and
\* byteOffset+2i+1 (high); typed arrays use the platform byte order, which is
\* little-endian on every platform a browser runs on.  Sequences are 1-based.
Int16At(bytes, byteOffset, i) ==
  ToInt16(bytes[byteOffset + 2 * i + 1] + 256 * bytes[byteOffset + 2 * i + 2])

\* the Int16Array constructor throws a RangeError when the byte offset is
\* not a multiple of the element size (2), whatever the length
Int16ArrayThrows(byteOffset) == byteOffset % 2 # 0

\* BaseAudioContext.createBuffer throws a NotSupportedError when the number
\* of frames is zero (line 130 passes numSamples as the length)
CreateBufferThrows(length) == length <= 0

\* EffectiveRate with the argument ignored
EffectiveRate_AlwaysDefault(arg) == DefaultSampleRate

\* sampleRate parameter with its default, line 124
EffectiveRate(arg) == IF arg = Nothing THEN DefaultSampleRate ELSE arg[1]

\* ctx.createBuffer(numChannels, numSamples, sampleRate): zero-filled
CreateBuffer(channels, length, rate) ==
  [numberOfChannels |-> channels, length |-> length, sampleRate |-> rate,
   channelData |-> [k \in 1..length |-> <<0, 1>>]]

NoBuffer == [numberOfChannels |-> 0, length |-> 0, sampleRate |-> 0,
             channelData |-> <<>>]

\* ChannelWrite through one channel array shared by all calls
ChannelWrite_Shared(bufs, c, i, v) ==
  [d \in DOMAIN bufs |->
     IF i + 1 \in DOMAIN bufs[d].channelData
     THEN [bufs[d] EXCEPT !.channelData[i + 1] = v] ELSE bufs[d]]

\* channelData[i] = v on the buffer of call c, line 134
ChannelWrite(bufs, c, i, v) ==
  [bufs EXCEPT ![c].channelData[i + 1] = v]

\* the disjoint pairs of views into a buffer of length n: a lies before b
Views(n) ==
  {f \in [Calls -> [byteOffset : 0..n, byteLength : 0..n]] :
     /\ f["a"].byteOffset + f["a"].byteLength <= f["b"].byteOffset
     /\ f["b"].byteOffset + f["b"].byteLength <= n}

PcmInit ==
  /\ mem \in [1..MaxBufLen -> ByteVals]
  /\ view \in Views(MaxBufLen)
  /\ rateArg \in [Calls -> {Nothing} \cup {Just(r) : r \in SampleRates}]
  /\ pc = [c \in Calls |-> "ready"]
  /\ idx = [c \in Calls |-> 0]
  /\ buffer = [c \in Calls |-> NoBuffer]
  /\ err = [c \in Calls |-> ""]

\* lines 126-132: numSamples, the Int16Array view, the output buffer
Enter(c) ==
  /\ pc[c] = "ready"
  /\ LET numSamples == NumSamplesOf(view[c].byteLength)
     IN  IF Int16ArrayThrows(view[c].byteOffset)
         THEN /\ pc' = [pc EXCEPT ![c] = "threw"]
              /\ err' = [err EXCEPT ![c] = "RangeError"]
              /\ UNCHANGED buffer
         ELSE IF CreateBufferThrows(numSamples)
         THEN /\ pc' = [pc EXCEPT ![c] = "threw"]
              /\ err' = [err EXCEPT ![c] = "NotSupportedError"]
              /\ UNCHANGED buffer
         ELSE /\ pc' = [pc EXCEPT ![c] = "loop"]
              /\ buffer' = [buffer EXCEPT ![c] =
                   CreateBuffer(NumChannels, numSamples, EffectiveRate(rateArg[c]))]
              /\ UNCHANGED err
  /\ UNCHANGED <<mem, view, rateArg, idx>>
  /\ UNCHANGED <<keyVars, repVars, ttsVars>>

\* lines 133-135: one iteration of the loop
LoopStep(c) ==
  /\ pc[c] = "loop"
  /\ idx[c] < NumSamplesOf(view[c].byteLength)
  /\ buffer' = ChannelWrite(buffer, c, idx[c],
                 Divide(Int16At(mem, view[c].byteOffset, idx[c]), Divisor))
  /\ idx' = [idx EXCEPT ![c] = idx[c] + 1]
  /\ UNCHANGED <<mem, view, rateArg, pc, err>>
  /\ UNCHANGED <<keyVars, repVars, ttsVars>>

\* line 137: the loop is over, return buffer
Return(c) ==
  /\ pc[c] = "loop"
  /\ idx[c] >= NumSamplesOf(view[c].byteLength)
  /\ pc' = [pc EXCEPT ![c] = "returned"]
  /\ UNCHANGED <<mem, view, rateArg, idx, buffer, err>>
  /\ UNCHANGED <<keyVars, repVars, ttsVars>>

PcmNext == \E c \in Calls : Enter(c) \/ LoopStep(c) \/ Return(c)

(* ============================ validateApiKey ========================== *)
\* longest API_KEY value of the build environment
MaxKeyLen == 5

\* characters of a credential: the double quote, white space, and the
\* letters of the prefix "vck_"
KeyChars == {"\"", " ", "v", "c", "k", "_"}

WhiteSpace == {" "}

\* JSON.stringify of a string: quoted, with " and \ escaped
RECURSIVE EscapeChars(_)
EscapeChars(s) ==
  IF s = <<>> THEN <<>>
  ELSE IF Head(s) \in {"\"", "\\"} THEN <<"\\", Head(s)>> \o EscapeChars(Tail(s))
  ELSE <<Head(s)>> \o EscapeChars(Tail(s))

JSONStringify(s) == <<"\"">> \o EscapeChars(s) \o <<"\"">>

\* the string a double-quoted literal denotes where the bundle evaluates it
RECURSIVE UnescapeChars(_)
UnescapeChars(s) ==
  IF s = <<>> THEN <<>>
  ELSE IF Head(s) = "\\" /\ Len(s) >= 2
       THEN <<s[2]>> \o UnescapeChars(Tail(Tail(s)))
  ELSE <<Head(s)>> \o UnescapeChars(Tail(s))

EvalStringLiteral(lit) == UnescapeChars(SubSeq(lit, 2, Len(lit) - 1))

\* process.env.API_KEY || ''  (vite config, line 10)
OrEmpty(v) == IF v = Nothing \/ v[1] = <<>> THEN <<>> ELSE v[1]

\* String.prototype.replace(/x/g, '') for a single character x
RECURSIVE RemoveChar(_, _)
RemoveChar(s, ch) ==
  IF s = <<>> THEN <<>>
  ELSE IF Head(s) = ch THEN RemoveChar(Tail(s), ch)
  ELSE <<Head(s)>> \o RemoveChar(Tail(s), ch)

RECURSIVE TrimStart(_)
TrimStart(s) ==
  IF s # <<>> /\ Head(s) \in WhiteSpace THEN TrimStart(Tail(s)) ELSE s

RECURSIVE TrimEnd(_)
TrimEnd(s) ==
  IF s # <<>> /\ s[Len(s)] \in WhiteSpace
  THEN TrimEnd(SubSeq(s, 1, Len(s) - 1)) ELSE s

\* String.prototype.trim
Trim(s) == TrimEnd(TrimStart(s))

\* String.prototype.startsWith
StartsWith(s, p) == Len(s) >= Len(p) /\ SubSeq(s, 1, Len(p)) = p

VckPrefix == <<"v", "c", "k", "_">>

\* apiKey.replace(/"/g, '').trim(), line 24
CleanKey(apiKey) == Trim(RemoveChar(apiKey, "\""))

\* !apiKey, line 19: a string is falsy exactly when it is empty
KeyMissing(apiKey) == apiKey = <<>>

MissingKeyMsg == "API Key is missing. Please check your Vercel Environment Variables."
VercelKeyMsg == "Configuration Error: You are using a Vercel AI Key ('vck_...'). This app requires a standard Google Cloud API Key (starting with 'AIza...'). Please update the API_KEY environment variable in Vercel Settings."

\* the body of validateApiKey, lines 18-32; error "" stands for no error field
ValidateApiKeyOf(apiKey) ==
  IF KeyMissing(apiKey) THEN [valid |-> FALSE, error |-> MissingKeyMsg]
  ELSE IF StartsWith(CleanKey(apiKey), VckPrefix)
       THEN [valid |-> FALSE, error |-> VercelKeyMsg]
  ELSE [valid |-> TRUE, error |-> ""]

KeyInit ==
  /\ envKey \in {Nothing} \cup {Just(k) : k \in SeqsUpTo(KeyChars, MaxKeyLen)}
  /\ keyLiteral = <<>>
  /\ keyPc = "build"
  /\ keyResult = [valid |-> FALSE, error |-> ""]

\* the build: define 'process.env.API_KEY' as JSON.stringify(... || '')
DefineApiKey ==
  /\ keyPc = "build"
  /\ keyLiteral' = JSONStringify(OrEmpty(envKey))
  /\ keyPc' = "built"
  /\ UNCHANGED <<envKey, keyResult>>
  /\ UNCHANGED <<pcmVars, repVars, ttsVars>>

\* a call of validateApiKey in the built bundle
ValidateApiKey ==
  /\ keyPc = "built"
  /\ keyResult' = ValidateApiKeyOf(EvalStringLiteral(keyLiteral))
  /\ keyPc' = "validated"
  /\ UNCHANGED <<envKey, keyLiteral>>
  /\ UNCHANGED <<pcmVars, repVars, ttsVars>>

KeyNext == DefineApiKey \/ ValidateApiKey

(* ========================== generateHealthReport ====================== *)
\* longest response text (and longest JSON document inside a fenced one)
MaxTextLen == 5

\* characters of a response text: the backtick, the letters of "json",
\* white space, a digit and the double quote
\* the backtick character (U+0060)
BT == "backtick"

TextChars == {BT, "j", "s", "o", "n", " ", "1", "\""}

\* the patterns of line 74
Fence == <<BT, BT, BT>>
FenceJson == <<BT, BT, BT, "j", "s", "o", "n">>

\* String.prototype.replace(pattern, "") for a literal pattern with the g
\* flag: leftmost matches, scanning on after each match
RECURSIVE ReplaceAll(_, _)
ReplaceAll(s, pat) ==
  IF Len(s) < Len(pat) THEN s
  ELSE IF SubSeq(s, 1, Len(pat)) = pat
       THEN ReplaceAll(SubSeq(s, Len(pat) + 1, Len(s)), pat)
  ELSE <<Head(s)>> \o ReplaceAll(Tail(s), pat)

\* line 74: remove every FenceJson, then every Fence, then trim
CleanText(text) == Trim(ReplaceAll(ReplaceAll(text, FenceJson), Fence))

\* value of a string of digits 1
RECURSIVE DigitsValue(_)
DigitsValue(s) ==
  IF s = <<>> THEN 0 ELSE 10 * DigitsValue(SubSeq(s, 1, Len(s) - 1)) + 1

IsNumberText(s) == s # <<>> /\ \A k \in 1..Len(s) : s[k] = "1"

IsStringText(s) ==
  /\ Len(s) >= 2
  /\ s[1] = "\"" /\ s[Len(s)] = "\""
  /\ \A k \in 2..(Len(s) - 1) : s[k] # "\""

\* JSON.parse restricted to TextChars: optional white space around one
\* number or one string; anything else is a SyntaxError
JSONParse(s) ==
  LET t == Trim(s)
  IN  IF IsNumberText(t)
      THEN [ok |-> TRUE, value |-> [type |-> "number", num |-> DigitsValue(t), str |-> <<>>]]
      ELSE IF IsStringText(t)
      THEN [ok |-> TRUE, value |-> [type |-> "string", num |-> 0,
                                    str |-> SubSeq(t, 2, Len(t) - 1)]]
      ELSE [ok |-> FALSE, value |-> [type |-> "undefined", num |-> 0, str |-> <<>>]]

NoValue == [type |-> "undefined", num |-> 0, str |-> <<>>]

EmptyResponseMsg == "The AI model returned an empty response."
ParseFailedMsg == "Failed to process the AI report. Please try again."
ConnectFailedMsg == "Failed to connect to Gemini API"
SyntaxErrorMsg == "Unexpected token in JSON"

\* an Error object: its message and whatever text it drags along
MkError(message, detail) == [message |-> message, detail |-> detail]
NoError == MkError("", <<>>)

\* the SyntaxError JSON.parse throws; its message quotes the offending text
ParseError(cleanText) == MkError(SyntaxErrorMsg, cleanText)

\* !text, line 69: undefined and "" are falsy
TextMissing(text) == text = Nothing \/ text[1] = <<>>

\* InnerCatchError rethrowing the parser's error
InnerCatchError_Rethrow(parseError, text) == parseError

\* line 80: what the inner catch throws
InnerCatchError(parseError, text) == MkError(ParseFailedMsg, <<>>)

\* OuterCatchError with the fallback message whatever was caught
OuterCatchError_AlwaysFallback(error) == MkError(ConnectFailedMsg, <<>>)

\* line 84: new Error(error.message || "Failed to connect to Gemini API")
OuterCatchError(error) ==
  MkError(IF error.message = "" THEN ConnectFailedMsg ELSE error.message, <<>>)

\* messages a rejected generateContent call carries
RejectMessages == {"", "fetch failed"}

\* the JSON documents of at most MaxTextLen characters
Docs == {d \in SeqsUpTo(TextChars, MaxTextLen) : JSONParse(d).ok}

\* what a model puts before and after a fenced document
FenceOpen == {FenceJson, FenceJson \o <<" ">>, <<" ">> \o FenceJson \o <<" ">>}
FenceClose == {Fence, <<" ">> \o Fence, <<" ">> \o Fence \o <<" ">>}

Fenced(d) == {pre \o d \o post : pre \in FenceOpen, post \in FenceClose}

ResponseTexts == SeqsUpTo(TextChars, MaxTextLen) \cup UNION {Fenced(d) : d \in Docs}

ReportInit ==
  /\ repResponse \in
       {[settled |-> "rejected", message |-> m, text |-> Nothing] : m \in RejectMessages}
       \cup {[settled |-> "resolved", message |-> "", text |-> t] :
               t \in {Nothing} \cup {Just(x) : x \in ResponseTexts}}
  /\ repPc = "awaiting"
  /\ repOutcome = "none"
  /\ repValue = NoValue
  /\ repError = NoError
  /\ repParsed = FALSE
  /\ repLog = <<>>

\* generateContent resolves: lines 68-81, and the outer catch of 82-85 for
\* whatever the try block throws
ReportResolved ==
  /\ repPc = "awaiting"
  /\ repResponse.settled = "resolved"
  /\ LET text == repResponse.text
     IN  IF TextMissing(text)
         THEN /\ repOutcome' = "threw"
              /\ repError' = OuterCatchError(MkError(EmptyResponseMsg, <<>>))
              /\ repLog' = <<"Report Generation Error:">>
              /\ UNCHANGED <<repValue, repParsed>>
         ELSE LET cleanText == CleanText(text[1])
                  parsed == JSONParse(cleanText)
              IN  /\ repParsed' = TRUE
                  /\ IF parsed.ok
                     THEN /\ repOutcome' = "returned"
                          /\ repValue' = parsed.value
                          /\ UNCHANGED <<repError, repLog>>
                     ELSE /\ repOutcome' = "threw"
                          /\ repError' = OuterCatchError(
                               InnerCatchError(ParseError(cleanText), text[1]))
                          /\ repLog' = <<"JSON Parse Error:", "Report Generation Error:">>
                          /\ UNCHANGED repValue
  /\ repPc' = "done"
  /\ UNCHANGED repResponse
  /\ UNCHANGED <<pcmVars, keyVars, ttsVars>>

\* generateContent rejects: the outer catch, lines 82-85
ReportRejected ==
  /\ repPc = "awaiting"
  /\ repResponse.settled = "rejected"
  /\ repOutcome' = "threw"
  /\ repError' = OuterCatchError(MkError(repResponse.message, <<>>))
  /\ repLog' = <<"Report Generation Error:">>
  /\ repPc' = "done"
  /\ UNCHANGED <<repResponse, repValue, repParsed>>
  /\ UNCHANGED <<pcmVars, keyVars, ttsVars>>

ReportNext == ReportResolved \/ ReportRejected

(* ========================= generateAudioNarration ===================== *)
\* longest base64 payload
MaxB64Len == 4

\* characters of a payload: three base64 digits, the padding character, a
\* character outside the base64 alphabet
B64Chars == {"A", "Q", "/", "=", "!"}

\* value of a base64 digit
B64Value(ch) == CASE ch = "A" -> 0 [] ch = "Q" -> 16 [] ch = "/" -> 63 [] OTHER -> -1

NoAudioMsg == "No audio data returned from TTS model"
InvalidCharacterMsg == "The string to be decoded is not correctly encoded."

\* atob, step 2-3: with a length divisible by 4, one or two trailing "="
\* are removed
StripPadding(b) ==
  IF Len(b) % 4 = 0 /\ Len(b) >= 1 /\ b[Len(b)] = "="
  THEN IF Len(b) >= 2 /\ b[Len(b) - 1] = "="
       THEN SubSeq(b, 1, Len(b) - 2) ELSE SubSeq(b, 1, Len(b) - 1)
  ELSE b

\* atob fails on a length that is 1 modulo 4 and on any character that is
\* not a base64 digit
B64Invalid(d) == Len(d) % 4 = 1 \/ \E k \in 1..Len(d) : B64Value(d[k]) < 0

\* the bytes of the base64 digits d: 4 digits give 3 bytes; a final group of
\* 2 digits gives 1 byte and one of 3 digits gives 2, the spare bits dropped
RECURSIVE B64Bytes(_)
B64Bytes(d) ==
  IF Len(d) >= 4
  THEN LET v == ((B64Value(d[1]) * 64 + B64Value(d[2])) * 64 + B64Value(d[3])) * 64
                + B64Value(d[4])
       IN  <<v \div 65536, (v \div 256) % 256, v % 256>>
             \o B64Bytes(SubSeq(d, 5, Len(d)))
  ELSE IF Len(d) = 3
  THEN LET v == (B64Value(d[1]) * 64 + B64Value(d[2])) * 64 + B64Value(d[3])
       IN  <<v \div 1024, (v \div 4) % 256>>
  ELSE IF Len(d) = 2
  THEN <<(B64Value(d[1]) * 64 + B64Value(d[2])) \div 16>>
  ELSE <<>>

\* base64ToUint8Array, lines 5-12: atob, then one byte per character code
Base64ToUint8Array(b) ==
  LET d == StripPadding(b)
  IN  IF B64Invalid(d) THEN [ok |-> FALSE, bytes |-> <<>>]
      ELSE [ok |-> TRUE, bytes |-> B64Bytes(d)]

\* a?.[0] on an optional array: undefined when a is undefined or empty
First(a) == IF a = Nothing \/ a[1] = <<>> THEN Nothing ELSE Just(a[1][1])

\* a?.f on an optional object whose field f is itself optional
Field(a, f) == IF a = Nothing THEN Nothing ELSE a[1][f]

\* response.candidates?.[0]?.content?.parts?.[0]?.inlineData?.data, line 109
AudioData(response) ==
  Field(Field(First(Field(Field(First(response.candidates), "content"),
                          "parts")), "inlineData"), "data")

\* HasAudio testing for undefined only
HasAudio_DefinedOnly(base64Audio) == base64Audio # Nothing

\* if (base64Audio), line 110: undefined and "" are falsy
HasAudio(base64Audio) == base64Audio # Nothing /\ base64Audio[1] # <<>>

MaybeOf(S) == {Nothing} \cup {Just(x) : x \in S}
ListsOf(S) == {<<>>} \cup {<<x>> : x \in S}

InlineDatas == [data : MaybeOf(SeqsUpTo(B64Chars, MaxB64Len))]
PartObjs == [inlineData : MaybeOf(InlineDatas)]
ContentObjs == [parts : MaybeOf(ListsOf(PartObjs))]
CandidateObjs == [content : MaybeOf(ContentObjs)]
TtsResponses == [candidates : MaybeOf(ListsOf(CandidateObjs))]

TtsInit ==
  /\ ttsResponse \in
       {[settled |-> "rejected", message |-> m, body |-> [candidates |-> Nothing]] :
          m \in RejectMessages}
       \cup {[settled |-> "resolved", message |-> "", body |-> r] : r \in TtsResponses}
  /\ ttsPc = "awaiting"
  /\ ttsOutcome = "none"
  /\ ttsBytes = <<>>
  /\ ttsError = NoError
  /\ ttsLog = <<>>

\* generateContent resolves: lines 109-113, and the catch of 114-117
TtsResolved ==
  /\ ttsPc = "awaiting"
  /\ ttsResponse.settled = "resolved"
  /\ LET base64Audio == AudioData(ttsResponse.body)
     IN  IF HasAudio(base64Audio)
         THEN LET decoded == Base64ToUint8Array(base64Audio[1])
              IN  IF decoded.ok
                  THEN /\ ttsOutcome' = "returned"
                       /\ ttsBytes' = decoded.bytes
                       /\ UNCHANGED <<ttsError, ttsLog>>
                  ELSE /\ ttsOutcome' = "threw"
                       /\ ttsError' = MkError(InvalidCharacterMsg, <<>>)
                       /\ ttsLog' = <<"TTS Error:">>
                       /\ UNCHANGED ttsBytes
         ELSE /\ ttsOutcome' = "threw"
              /\ ttsError' = MkError(NoAudioMsg, <<>>)
              /\ ttsLog' = <<"TTS Error:">>
              /\ UNCHANGED ttsBytes
  /\ ttsPc' = "done"
  /\ UNCHANGED ttsResponse
  /\ UNCHANGED <<pcmVars, keyVars, repVars>>

\* generateContent rejects: the catch rethrows the same error, lines 114-117
TtsRejected ==
  /\ ttsPc = "awaiting"
  /\ ttsResponse.settled = "rejected"
  /\ ttsOutcome' = "threw"
  /\ ttsError' = MkError(ttsResponse.message, <<>>)
  /\ ttsLog' = <<"TTS Error:">>
  /\ ttsPc' = "done"
  /\ UNCHANGED <<ttsResponse, ttsBytes>>
  /\ UNCHANGED <<pcmVars, keyVars, repVars>>

TtsNext == TtsResolved \/ TtsRejected

(* ============================ specifications ========================== *)
\* the parts of the program a specification leaves out stay as constructed
PcmIdle ==
  /\ mem = [k \in 1..MaxBufLen |-> 0]
  /\ view = [c \in Calls |-> [byteOffset |-> 0, byteLength |-> 0]]
  /\ rateArg = [c \in Calls |-> Nothing]
  /\ pc = [c \in Calls |-> "ready"]
  /\ idx = [c \in Calls |-> 0]
  /\ buffer = [c \in Calls |-> NoBuffer]
  /\ err = [c \in Calls |-> ""]

KeyIdle ==
  /\ envKey = Nothing
  /\ keyLiteral = <<>>
  /\ keyPc = "build"
  /\ keyResult = [valid |-> FALSE, error |-> ""]

ReportIdle ==
  /\ repResponse = [settled |-> "resolved", message |-> "", text |-> Nothing]
  /\ repPc = "awaiting"
  /\ repOutcome = "none"
  /\ repValue = NoValue
  /\ repError = NoError
  /\ repParsed = FALSE
  /\ repLog = <<>>

TtsIdle ==
  /\ ttsResponse = [settled |-> "resolved", message |-> "", body |-> [candidates |-> Nothing]]
  /\ ttsPc = "awaiting"
  /\ ttsOutcome = "none"
  /\ ttsBytes = <<>>
  /\ ttsError = NoError
  /\ ttsLog = <<>>

InitPCM == PcmInit /\ KeyIdle /\ ReportIdle /\ TtsIdle
InitKey == KeyInit /\ PcmIdle /\ ReportIdle /\ TtsIdle
InitReport == ReportInit /\ PcmIdle /\ KeyIdle /\ TtsIdle
InitTTS == TtsInit /\ PcmIdle /\ KeyIdle /\ ReportIdle

SpecPCM == InitPCM /\ [][PcmNext]_vars
SpecKey == InitKey /\ [][KeyNext]_vars
SpecReport == InitReport /\ [][ReportNext]_vars
SpecTTS == InitTTS /\ [][TtsNext]_vars

(* ============================== properties ============================ *)
\* byte j (0-based) of the input of call c
InputByte(c, j) == mem[view[c].byteOffset + j + 1]

\* the bytes of the input of call c
InputBytes(c) == [j \in 1..view[c].byteLength |-> InputByte(c, j - 1)]

Finished(c) == pc[c] \in {"returned", "threw"}

\* C1: every call of createAudioBufferFromPCM, whatever the length of its
\* input (even, odd or zero), produces a buffer of one channel with
\* floor(byteLength / 2) samples.
C1_SampleCount ==
  \A c \in Calls :
    Finished(c) =>
      /\ pc[c] = "returned"
      /\ buffer[c].numberOfChannels = 1
      /\ buffer[c].length = view[c].byteLength \div 2
      /\ Len(buffer[c].channelData) = view[c].byteLength \div 2

\* C2: in a returned buffer, sample i is s / 32768 where s is the signed
\* 16-bit integer with low byte input[2i] and high byte input[2i+1]; the
\* pairs (0x00,0x00), (0x00,0x80), (0xFF,0x7F) give 0, -1, 32767/32768.
C2_SampleValues ==
  \A c \in Calls :
    pc[c] = "returned" =>
      \A i \in 0..((view[c].byteLength \div 2) - 1) :
        LET lo == InputByte(c, 2 * i)
            hi == InputByte(c, 2 * i + 1)
            s  == IF hi >= 128 THEN lo + 256 * hi - 65536 ELSE lo + 256 * hi
            x  == buffer[c].channelData[i + 1]
        IN  /\ x[2] > 0
            /\ x[1] * 32768 = s * x[2]
            /\ (lo = 0 /\ hi = 0) => x = <<0, 1>>
            /\ (lo = 0 /\ hi = 128) => x = <<-1, 1>>
            /\ (lo = 255 /\ hi = 127) => x = <<32767, 32768>>

\* a call returned the sample 32767/32768 read at byte offset 2 of a buffer
\* that starts with other bytes
C2_Witness ==
  \E c \in Calls :
    /\ pc[c] = "returned"
    /\ view[c].byteOffset = 2
    /\ InputBytes(c) = <<255, 127>>
    /\ <<mem[1], mem[2]>> = <<0, 128>>
    /\ buffer[c].channelData = <<(<<32767, 32768>>)>>

\* C3: createAudioBufferFromPCM never throws, and an empty input gives a
\* buffer of length zero.
C3_NeverFails ==
  \A c \in Calls :
    /\ pc[c] # "threw"
    /\ (pc[c] = "returned" /\ view[c].byteLength = 0) => buffer[c].length = 0

\* C9: a returned buffer carries sample rate 24000 when no rate was passed
\* and the rate passed otherwise; two calls on equal bytes return the same
\* number of samples and the same samples whatever their rates.
C9_SampleRate ==
  /\ \A c \in Calls :
       pc[c] = "returned" =>
         /\ rateArg[c] = Nothing => buffer[c].sampleRate = 24000
         /\ rateArg[c] # Nothing => buffer[c].sampleRate = rateArg[c][1]
  /\ \A c, d \in Calls :
       (pc[c] = "returned" /\ pc[d] = "returned" /\ InputBytes(c) = InputBytes(d)) =>
         /\ buffer[c].length = buffer[d].length
         /\ buffer[c].channelData = buffer[d].channelData

\* two calls on equal bytes, one with the default rate and one with an
\* explicit rate, have both returned
C9_Witness ==
  /\ pc["a"] = "returned" /\ pc["b"] = "returned"
  /\ InputBytes("a") = InputBytes("b") /\ view["a"].byteLength >= 2
  /\ rateArg["a"] = Nothing /\ rateArg["b"] # Nothing
  /\ buffer["a"].sampleRate = 24000 /\ buffer["b"].sampleRate # 24000

\* createAudioBufferFromPCM as a function of one input, run on its own
RunAlone(bytes, arg) ==
  LET n == NumSamplesOf(Len(bytes))
  IN  [numberOfChannels |-> NumChannels, length |-> n,
       sampleRate |-> EffectiveRate(arg),
       channelData |-> [k \in 1..n |-> Divide(Int16At(bytes, 0, k - 1), Divisor)]]

\* C10: however two calls on disjoint inputs interleave, each buffer is at
\* every moment what its own call has written so far (its first i samples,
\* zeros after them), a returned buffer is the one the call produces when
\* run alone, and no step changes the input bytes.
C10_NoCrossTalk ==
  /\ [](\A c \in Calls :
          LET alone == RunAlone(InputBytes(c), rateArg[c])
          IN  /\ pc[c] = "returned" => buffer[c] = alone
              /\ pc[c] = "loop" =>
                   \A k \in 1..buffer[c].length :
                     buffer[c].channelData[k] =
                       IF k <= idx[c] THEN alone.channelData[k] ELSE <<0, 1>>)
  /\ [][mem' = mem /\ view' = view]_vars

\* call a has written its sample and not yet returned while call b, on
\* other bytes, has returned a different sample
C10_Witness ==
  /\ pc["a"] = "loop" /\ idx["a"] = 1
  /\ pc["b"] = "returned"
  /\ buffer["a"].channelData # buffer["b"].channelData
  /\ buffer["a"].channelData # <<(<<0, 1>>)>>
  /\ buffer["b"].channelData # <<(<<0, 1>>)>>

\* C4: a credential that, after the clean-up of validateApiKey, is empty or
\* starts with "vck_" is reported invalid with a non-empty message.
C4_RejectsBadKey ==
  keyPc = "validated" =>
    LET cleaned == CleanKey(OrEmpty(envKey))
    IN  (cleaned = <<>> \/ StartsWith(cleaned, VckPrefix)) =>
          /\ keyResult.valid = FALSE
          /\ keyResult.error # ""

\* C5: a non-empty response text that is not JSON once the fences are
\* stripped makes generateHealthReport throw an error whose message is the
\* generic retry message and which carries no parser message and no text.
C5_ParseFailure ==
  (/\ repPc = "done"
   /\ repResponse.settled = "resolved"
   /\ ~TextMissing(repResponse.text)
   /\ ~JSONParse(CleanText(repResponse.text[1])).ok) =>
     /\ repOutcome = "threw"
     /\ repValue = NoValue
     /\ repError.message = "Failed to process the AI report. Please try again."
     /\ repError.message # SyntaxErrorMsg
     /\ repError.detail = <<>>

\* a response that is a fence followed by an unterminated string was refused
C5_Witness ==
  /\ repPc = "done"
  /\ repResponse.text = Just(Fence \o <<"\"", "1">>)
  /\ repParsed
  /\ repOutcome = "threw"
  /\ repError.message = ParseFailedMsg

\* C6: an absent or empty response text makes generateHealthReport throw
\* the empty-response error, without a call of JSON.parse and without the
\* connection-failure message taking its place.
C6_EmptyResponse ==
  (/\ repPc = "done"
   /\ repResponse.settled = "resolved"
   /\ (repResponse.text = Nothing \/ repResponse.text = Just(<<>>))) =>
     /\ ~repParsed
     /\ repOutcome = "threw"
     /\ repValue = NoValue
     /\ repError.message = "The AI model returned an empty response."
     /\ repError.message # ConnectFailedMsg

\* the call resolved with the empty string and generateHealthReport threw
C6_Witness ==
  /\ repPc = "done"
  /\ repResponse.settled = "resolved"
  /\ repResponse.text = Just(<<>>)
  /\ repOutcome = "threw"

\* C7: for a JSON document d, the response texts d and d inside a fence
\* both make generateHealthReport return the value of parsing d.
C7_FenceStripping ==
  (repPc = "done" /\ repResponse.settled = "resolved" /\ repResponse.text # Nothing) =>
    LET t == repResponse.text[1]
    IN  /\ JSONParse(t).ok =>
             (repOutcome = "returned" /\ repValue = JSONParse(t).value)
        /\ \A pre \in FenceOpen, post \in FenceClose :
             LET d == SubSeq(t, Len(pre) + 1, Len(t) - Len(post))
             IN  (/\ Len(t) >= Len(pre) + Len(post)
                  /\ t = pre \o d \o post
                  /\ JSONParse(d).ok) =>
                    (repOutcome = "returned" /\ repValue = JSONParse(d).value)

\* C8: a TTS response without a payload (a link of the chain absent, or the
\* data empty) makes generateAudioNarration throw the no-audio-data error
\* and return no bytes; bytes are returned only for a present payload.
C8_NoAudioData ==
  ttsPc = "done" =>
    LET body == ttsResponse.body
        absent ==
          \/ body.candidates = Nothing
          \/ body.candidates[1] = <<>>
          \/ body.candidates[1][1].content = Nothing
          \/ body.candidates[1][1].content[1].parts = Nothing
          \/ body.candidates[1][1].content[1].parts[1] = <<>>
          \/ body.candidates[1][1].content[1].parts[1][1].inlineData = Nothing
          \/ body.candidates[1][1].content[1].parts[1][1].inlineData[1].data = Nothing
          \/ body.candidates[1][1].content[1].parts[1][1].inlineData[1].data[1] = <<>>
    IN  /\ (ttsResponse.settled = "resolved" /\ absent) =>
              /\ ttsOutcome = "threw"
              /\ ttsError.message = "No audio data returned from TTS model"
              /\ ttsBytes = <<>>
        /\ ttsOutcome = "returned" => (ttsResponse.settled = "resolved" /\ ~absent)

\* a response whose inlineData has an empty data string was refused
C8_Witness ==
  /\ ttsPc = "done"
  /\ ttsResponse.settled = "resolved"
  /\ AudioData(ttsResponse.body) = Just(<<>>)
  /\ ttsOutcome = "threw"
  /\ ttsError.message = NoAudioMsg

====
